---- MODULE Spec2Model ----
(***************************************************************************)
(* Model of the Zodya i18n module (src/js/i18n.js, lines 1-315): language  *)
(* resolution, dataset loading with fallback, rendering of the document    *)
(* attributes and the language switch.                                     *)
(*                                                                         *)
(* JavaScript runs the synchronous part of a call, and every chain of      *)
(* promise continuations that follows the settling of one platform promise *)
(* (fetch(), response.json()), without interleaving with other callbacks.  *)
(* Each action below is one such run.                                      *)
(***************************************************************************)
EXTENDS Integers, Sequences, FiniteSets, TLC

(***************************************************************************)
(* Bounds of the model.                                                    *)
(***************************************************************************)
\* number of invocations of init / setLanguage / click handlers considered
MaxCalls == 3
\* maximal length of navigator.languages
MaxLocales == 2

(***************************************************************************)
(* Values.                                                                 *)
(***************************************************************************)
\* JavaScript null / undefined / a missing item
NULL == "null"
\* the initial value of translations: the object {} (line 18)
EMPTY == "{}"

\* CONFIG (lines 8-14)
defaultLanguage == "en"
supportedLanguages == <<"en", "ar">>
rtlLanguages == <<"ar">>

\* Array.prototype.includes on an array of strings
includes(arr, x) == \E i \in 1..Len(arr) : arr[i] = x

\* JavaScript truthiness of a string-or-null value: null, undefined and the
\* empty string are falsy
truthy(v) == v # NULL /\ v # ""

(***************************************************************************)
(* Locale tags are sequences of one-character strings, so that split('-')  *)
(* and toLowerCase() are computed and not assumed.                         *)
(***************************************************************************)
UpperCase == <<"A", "D", "E", "F", "I", "N", "R", "S", "T", "U">>
LowerCase == <<"a", "d", "e", "f", "i", "n", "r", "s", "t", "u">>

\* String.prototype.toLowerCase on one character
lowerChar(c) ==
    IF \E i \in 1..Len(UpperCase) : UpperCase[i] = c
    THEN LowerCase[CHOOSE i \in 1..Len(UpperCase) : UpperCase[i] = c]
    ELSE c

\* String.prototype.toLowerCase
toLowerCase(s) == [i \in 1..Len(s) |-> lowerChar(s[i])]

\* s.split('-')[0]: the characters before the first '-', all of s if none
RECURSIVE splitFirst(_)
splitFirst(s) ==
    IF s = <<>> \/ Head(s) = "-" THEN <<>>
    ELSE <<Head(s)>> \o splitFirst(Tail(s))

\* the string made of the characters of s
RECURSIVE str(_)
str(s) == IF s = <<>> THEN "" ELSE Head(s) \o str(Tail(s))

\* lang.split('-')[0].toLowerCase() (lines 93, 102)
langCodeOf(tag) == str(toLowerCase(splitFirst(tag)))

\* the locale tags the browser may report
Tags == { <<"a", "r", "-", "S", "A">>,
          <<"E", "N", "-", "u", "s">>,
          <<"f", "r", "-", "F", "R">>,
          <<"a", "r", "_", "S", "A">> }

\* values of navigator.language || navigator.userLanguage; the empty tag
\* stands for the falsy results (undefined, '')
NavLanguageValues == Tags \cup {<<>>}

\* sequences over S of length at most n
SeqUpTo(S, n) == UNION {[1..k -> S] : k \in 0..n}

\* values of navigator: language, and languages with its presence
NavigatorValues ==
    [language : NavLanguageValues, hasLanguages : {TRUE},
     languages : SeqUpTo(Tags, MaxLocales)]
    \cup [language : NavLanguageValues, hasLanguages : {FALSE},
          languages : {<<>>}]

(***************************************************************************)
(* Datasets and key paths (lines 139-153). A dataset is the value parsed   *)
(* from a locale file: a tree of objects with strings (sequences of        *)
(* one-character strings) and numbers at its leaves.                       *)
(***************************************************************************)
\* a JSON string, a JSON number, a JSON object with the members kids
String(chars) == [kind |-> "string", val |-> chars]
Number(n) == [kind |-> "number", val |-> n]
Object(kids) == [kind |-> "object", kids |-> kids]
NoMembers == [k \in {} |-> NULL]

\* members every object inherits from Object.prototype (two of them), and
\* the function that is the value of such a member
InheritedKeys == {"constructor", "toString"}
Function(name) == [kind |-> "function", name |-> name]

\* s.split(sep) for a one-character separator
RECURSIVE split(_, _)
split(s, sep) ==
    IF \A i \in 1..Len(s) : s[i] # sep THEN <<s>>
    ELSE LET at == CHOOSE i \in 1..Len(s) :
                      s[i] = sep /\ \A j \in 1..(i - 1) : s[j] # sep
         IN <<SubSeq(s, 1, at - 1)>> \o split(SubSeq(s, at + 1, Len(s)), sep)

\* value && typeof value === 'object' (line 144)
isObject(value) == value.kind = "object"

\* key in value (line 144), own or inherited
hasKey(value, key) == key \in DOMAIN value.kids \/ key \in InheritedKeys

\* value[key] (line 145)
member(value, key) ==
    IF key \in DOMAIN value.kids THEN value.kids[key] ELSE Function(key)

\* the loop of lines 143-150 over keys from a value; found is FALSE when
\* the loop returned keyPath
RECURSIVE walk(_, _)
walk(value, keys) ==
    IF keys = <<>> THEN [found |-> TRUE, value |-> value]
    ELSE IF isObject(value) /\ hasKey(value, str(Head(keys)))
    THEN walk(member(value, str(Head(keys))), Tail(keys))
    ELSE [found |-> FALSE, value |-> value]

\* t(keyPath) on the dataset tree (lines 139-153)
t(tree, keyPath) ==
    LET end == walk(tree, split(keyPath, "."))
    IN IF end.found THEN end.value ELSE String(keyPath)

\* the datasets of the model
TreeABC == Object("a" :> Object("b" :> Object("c" :> String(<<"X">>))))
TreeAB == Object("a" :> Object("b" :> Object(NoMembers)))
TreeA == Object("a" :> String(<<"<", "b", ">">>))
TreeMeta ==
    Object(("meta" :> Object(("title" :> String(<<"Z">>))
                             @@ ("description" :> String(<<"D">>))))
           @@ ("a" :> Object("b" :> String(<<"Y">>)))
           @@ ("n" :> Number(7)))
Trees == {Object(NoMembers), TreeABC, TreeAB, TreeA, TreeMeta}

\* key paths that name inherited members
InheritedPaths == { <<"t", "o", "S", "t", "r", "i", "n", "g">>,
                    <<"a", ".", "c", "o", "n", "s", "t", "r", "u", "c", "t",
                      "o", "r">> }

\* the key paths of the model
KeyPaths == { <<"a", ".", "b", ".", "c">>,
              <<"a", ".", "b">>,
              <<"a">>,
              <<"a", ".", "x">>,
              <<"a", ".", "b", ".", "c", ".", "d">>,
              <<"n">>,
              <<"a", ".", ".", "b">>,
              <<>> }

(***************************************************************************)
(* The document and applyTranslations (lines 158-195). The document is the *)
(* elements carrying a marker attribute, the title and the description     *)
(* meta element. An element is its attributes (name to value) and its      *)
(* content, with html telling whether the content was written as markup.   *)
(* Attribute values and contents are sequences of one-character strings.   *)
(* An element is no descendant of another, and the markup of a translation *)
(* holds no element with a marker attribute.                               *)
(***************************************************************************)
Element(attrs, content) == [attrs |-> attrs, content |-> content, html |-> FALSE]

\* translation.includes('<') (line 165), for a one-character text
contains(s, c) == \E i \in 1..Len(s) : s[i] = c

\* String.prototype.trim
RECURSIVE trim(_)
trim(s) ==
    IF s = <<>> THEN s
    ELSE IF Head(s) = " " THEN trim(Tail(s))
    ELSE IF s[Len(s)] = " " THEN trim(SubSeq(s, 1, Len(s) - 1))
    ELSE s

\* the name under which setAttribute stores an attribute of an HTML element
attributeName(attr) == str(toLowerCase(attr))

\* Number.prototype.toString for a natural number
RECURSIVE digits(_)
digits(n) ==
    LET digit == <<"0", "1", "2", "3", "4", "5", "6", "7", "8", "9">>
    IN IF n < 10 THEN <<digit[n + 1]>>
       ELSE digits(n \div 10) \o <<digit[(n % 10) + 1]>>

\* the string a value is converted to when it is written into the document
toString(value) ==
    IF value.kind = "string" THEN value.val
    ELSE IF value.kind = "number" THEN digits(value.val)
    ELSE <<"[", "o", "b", "j", "e", "c", "t", " ",
           "O", "b", "j", "e", "c", "t", "]">>

\* value.key for a key no object inherits
property(value, key) ==
    IF value.kind = "object" /\ key \in DOMAIN value.kids
    THEN value.kids[key]
    ELSE [kind |-> "undefined"]

\* JavaScript truthiness of a value of a dataset
truthyValue(value) ==
    IF value.kind = "string" THEN value.val # <<>>
    ELSE IF value.kind = "number" THEN value.val # 0
    ELSE value.kind = "object"

\* lines 161-169 appending the translation to the content of the element
translateContent_append(el, tree) ==
    IF "data-i18n" \notin DOMAIN el.attrs THEN el
    ELSE LET translation == t(tree, el.attrs["data-i18n"])
         IN IF translation.kind = "string"
            THEN [el EXCEPT !.content = @ \o translation.val,
                            !.html = contains(translation.val, "<")]
            ELSE el

\* lines 161-169 on one element: innerHTML when the translation holds a
\* '<', textContent otherwise, nothing when it is no string
translateContent(el, tree) ==
    IF "data-i18n" \notin DOMAIN el.attrs THEN el
    ELSE LET translation == t(tree, el.attrs["data-i18n"])
         IN IF translation.kind = "string"
            THEN [el EXCEPT !.content = translation.val,
                            !.html = contains(translation.val, "<")]
            ELSE el

\* lines 177-183 on the pairs of one element; threw when t(undefined) (a
\* pair without ':') or setAttribute('') threw, which ends the run
RECURSIVE translatePairs(_, _, _)
translatePairs(el, pairs, tree) ==
    IF pairs = <<>> THEN [el |-> el, threw |-> FALSE]
    ELSE LET parts == split(Head(pairs), ":")
             attr == trim(parts[1])
         IN IF Len(parts) < 2 THEN [el |-> el, threw |-> TRUE]
            ELSE LET translation == t(tree, trim(parts[2]))
                 IN IF translation.kind # "string"
                    THEN translatePairs(el, Tail(pairs), tree)
                    ELSE IF attr = <<>> THEN [el |-> el, threw |-> TRUE]
                    ELSE translatePairs(
                             [el EXCEPT !.attrs =
                                 (attributeName(attr) :> translation.val) @@ @],
                             Tail(pairs), tree)

\* lines 174-183 on one element
translateAttributes(el, tree) ==
    IF "data-i18n-attr" \notin DOMAIN el.attrs
    THEN [el |-> el, threw |-> FALSE]
    ELSE translatePairs(el, split(el.attrs["data-i18n-attr"], ","), tree)

\* the forEach of line 173 over the elements from the first
RECURSIVE attributePass(_, _)
attributePass(elements, tree) ==
    IF elements = <<>> THEN [elements |-> <<>>, threw |-> FALSE]
    ELSE LET first == translateAttributes(Head(elements), tree)
         IN IF first.threw
            THEN [elements |-> <<first.el>> \o Tail(elements), threw |-> TRUE]
            ELSE LET rest == attributePass(Tail(elements), tree)
                 IN [elements |-> <<first.el>> \o rest.elements,
                     threw |-> rest.threw]

\* lines 186-194: the title and the description of the metadata subtree
translateMeta(doc, tree) ==
    LET meta == property(tree, "meta")
        title == property(meta, "title")
        description == property(meta, "description")
    IN [doc EXCEPT
           !.title = IF truthyValue(meta) /\ truthyValue(title)
                     THEN toString(title) ELSE @,
           !.description = IF /\ doc.hasMeta
                              /\ truthyValue(meta)
                              /\ truthyValue(description)
                           THEN toString(description) ELSE @]

\* applyTranslations (lines 158-195) on the document doc with the dataset
\* tree in memory: the document it leaves, and whether it threw
renderDocument(doc, tree) ==
    LET texts == [i \in 1..Len(doc.elements) |->
                      translateContent(doc.elements[i], tree)]
        mapped == attributePass(texts, tree)
        written == [doc EXCEPT !.elements = mapped.elements]
    IN IF mapped.threw THEN [document |-> written, threw |-> TRUE]
       ELSE [document |-> translateMeta(written, tree), threw |-> FALSE]

\* the document of the model's pages: a heading, the title and the
\* description of the English page
PageDocument ==
    [elements |-> << Element("data-i18n" :> <<"a", ".", "x">>, <<"H">>) >>,
     title |-> <<"Z">>, hasMeta |-> TRUE, description |-> <<"D">>]

\* datasets whose metadata are no strings, and whose string names a pair
TreeOdd ==
    Object(("meta" :> Object(("title" :> Number(7))
                             @@ ("description" :> Object(NoMembers))))
           @@ ("a" :> Object("b" :> String(<<>>))))
TreeMap ==
    Object("a" :> Object("b" :> String(<<"a", "l", "t", ":", "a", ".", "b">>)))
RenderTrees == Trees \cup {TreeOdd, TreeMap}

\* documents: text and mapped attributes
DocPlain ==
    [elements |->
        << Element("data-i18n" :> <<"a", ".", "b">>, <<"H">>),
           Element("data-i18n-attr" :>
                       <<"t", "i", "t", "l", "e", ":", "a", ".", "b", ",",
                         " ", "a", "l", "t", " ", ":", " ", "n">>,
                   <<>>) >>,
     title |-> <<"T">>, hasMeta |-> TRUE, description |-> <<>>]
\* an element with both markers, markup, and no description element
DocMarkup ==
    [elements |->
        << Element(("data-i18n" :> <<"a">>)
                   @@ ("data-i18n-attr" :>
                           <<"a", "l", "t", ":", "a", ".", "b", ".", "c">>),
                   <<"H">>) >>,
     title |-> <<>>, hasMeta |-> FALSE, description |-> <<>>]
\* an attribute map naming the key marker, in lower and in upper case
DocKeyMapped ==
    [DocPlain EXCEPT !.elements =
        << Element("data-i18n-attr" :>
                       <<"d", "a", "t", "a", "-", "i", "1", "8", "n", ":",
                         "a", ".", "b">>,
                   <<"H">>) >>]
DocKeyMappedUpper ==
    [DocPlain EXCEPT !.elements =
        << Element("data-i18n-attr" :>
                       <<"D", "A", "T", "A", "-", "I", "1", "8", "N", ":",
                         "a", ".", "b">>,
                   <<"H">>) >>]
\* an attribute map naming the map marker
DocMapMapped ==
    [DocPlain EXCEPT !.elements =
        << Element("data-i18n-attr" :>
                       <<"d", "a", "t", "a", "-", "i", "1", "8", "n", "-",
                         "a", "t", "t", "r", ":", "a", ".", "b">>,
                   <<"H">>) >>]
\* attribute maps with a trailing comma and with no attribute name
DocTrailingComma ==
    [DocPlain EXCEPT !.elements =
        << Element("data-i18n-attr" :>
                       <<"a", "l", "t", ":", "a", ".", "b", ",">>,
                   <<"H">>),
           Element("data-i18n" :> <<"a", ".", "b">>, <<"H">>) >>]
DocNoName ==
    [DocPlain EXCEPT !.elements =
        << Element(("data-i18n" :> <<"a", ".", "b">>)
                   @@ ("data-i18n-attr" :> <<":", "a", ".", "b">>),
                   <<"H">>) >>]
Documents == {PageDocument, DocPlain, DocMarkup, DocKeyMapped,
              DocKeyMappedUpper, DocMapMapped, DocTrailingComma, DocNoName}

\* values of the 'lang' query parameter and of the stored item
ParamValues == {"en", "ar", "fr", "EN", "", NULL}

\* arguments of setLanguage
LangArgs == {"en", "ar", "fr"}

\* localStorage: usable, refusing writes (quota), or throwing on access
StorageModes == {"ok", "readonly", "blocked"}

VARIABLES
    currentLanguage,   \* line 17
    translations,      \* line 18: EMPTY or the code whose file was parsed
    isInitialized,     \* line 19
    urlLang,           \* URLSearchParams(window.location.search).get('lang')
    localStorage,      \* item 'zodya-language', NULL when absent
    storageMode,       \* behaviour of localStorage
    navigator,         \* navigator.language(s)
    locales,           \* the dataset in the locale file of each code
    docLang,           \* <html lang>
    docDir,            \* <html dir>
    bodyClass,         \* classes of <body> among rtl, ltr, i18n-ready
    rendered,          \* dataset last written into the document, NULL if none
    document,          \* the marked elements, the title and the description
    selectorActive,    \* data-lang of the buttons marked active
    listeners,         \* click listeners registered on each button
    events,            \* notifications dispatched on document, in order
    tasks,             \* the async invocations that reached their await
    calls,             \* number of invocations so far
    lastCall,          \* the last invocation: operation and argument
    returned           \* the value the last call of t returned

env == <<urlLang, storageMode, navigator, locales>>
dom == <<docLang, docDir, bodyClass, rendered, document, selectorActive,
        listeners>>
vars == <<currentLanguage, translations, isInitialized, urlLang, localStorage,
          storageMode, navigator, docLang, docDir, bodyClass,
          rendered, selectorActive, listeners, events, tasks, calls, lastCall,
          locales, returned, document>>

(***************************************************************************)
(* Language resolution (lines 28-31, 61-110).                              *)
(***************************************************************************)
\* a || b on string-or-null values
or(a, b) == IF truthy(a) THEN a ELSE b

\* getUrlLanguage (lines 61-68); lang is urlParams.get('lang')
getUrlLanguage(lang) ==
    IF truthy(lang) /\ includes(supportedLanguages, lang) THEN lang ELSE NULL

\* getStoredLanguage without the check of line 76
getStoredLanguage_unchecked(mode, stored) ==
    IF mode = "blocked" THEN NULL
    ELSE IF truthy(stored) THEN stored
    ELSE NULL

\* getStoredLanguage reading the item of a store that throws
getStoredLanguage_readsBlocked(mode, stored) ==
    IF truthy(stored) /\ includes(supportedLanguages, stored) THEN stored
    ELSE NULL

\* getStoredLanguage (lines 73-83); a blocked store throws on access, and
\* the catch falls through to return null
getStoredLanguage(mode, stored) ==
    IF mode = "blocked" THEN NULL
    ELSE IF truthy(stored) /\ includes(supportedLanguages, stored) THEN stored
    ELSE NULL

\* the for loop of lines 101-106 over languages from index i on
RECURSIVE firstSupported(_, _)
firstSupported(languages, i) ==
    IF i > Len(languages) THEN NULL
    ELSE IF includes(supportedLanguages, langCodeOf(languages[i]))
         THEN langCodeOf(languages[i])
         ELSE firstSupported(languages, i + 1)

\* detectBrowserLanguage consulting navigator.languages before the primary
\* locale
detectBrowserLanguage_listFirst(nav) ==
    IF nav.hasLanguages /\ firstSupported(nav.languages, 1) # NULL
    THEN firstSupported(nav.languages, 1)
    ELSE IF nav.language # <<>>
            /\ includes(supportedLanguages, langCodeOf(nav.language))
    THEN langCodeOf(nav.language)
    ELSE NULL

\* detectBrowserLanguage (lines 88-110)
detectBrowserLanguage(nav) ==
    IF nav.language # <<>>
       /\ includes(supportedLanguages, langCodeOf(nav.language))
    THEN langCodeOf(nav.language)
    ELSE IF nav.hasLanguages THEN firstSupported(nav.languages, 1)
    ELSE NULL

\* lines 28-31 with the stored preference consulted before the query
resolveLanguage_storedFirst(lang, mode, stored, nav) ==
    or(getStoredLanguage(mode, stored),
       or(getUrlLanguage(lang),
          or(detectBrowserLanguage(nav), defaultLanguage)))

\* the initial language (lines 28-31)
resolveLanguage(lang, mode, stored, nav) ==
    or(getUrlLanguage(lang),
       or(getStoredLanguage(mode, stored),
          or(detectBrowserLanguage(nav), defaultLanguage)))

(***************************************************************************)
(* Rendering (lines 158-210, 253-281).                                     *)
(***************************************************************************)
\* the buttons of the language selector: one per supported code
Buttons == {supportedLanguages[i] : i \in 1..Len(supportedLanguages)}

\* classList.toggle(name, force)
toggle(classes, name, force) ==
    IF force THEN classes \cup {name} ELSE classes \ {name}

\* isRTL (lines 201, 293-295)
isRTL(lang) == includes(rtlLanguages, lang)

\* lines 208-209 adding the class of the direction and leaving the other
directionClasses_addOnly(classes, lang) ==
    classes \cup {IF isRTL(lang) THEN "rtl" ELSE "ltr"}

\* the two body classes of lines 208-209
directionClasses(classes, lang) ==
    toggle(toggle(classes, "rtl", isRTL(lang)), "ltr", ~isRTL(lang))

\* updateDocumentAttributes (lines 200-210); added are the classes the
\* caller adds to the body afterwards (line 48)
updateDocumentAttributes(added) ==
    /\ docLang' = currentLanguage
    /\ docDir' = IF isRTL(currentLanguage) THEN "rtl" ELSE "ltr"
    /\ bodyClass' = directionClasses(bodyClass, currentLanguage) \cup added

\* updateLanguageSelectorUI (lines 272-281)
updateLanguageSelectorUI ==
    selectorActive' = {btn \in Buttons : btn = currentLanguage}

\* the tree of the dataset tr: {} (line 18) or the content of a locale file
treeOf(tr) == IF tr = EMPTY THEN Object(NoMembers) ELSE locales[tr]

\* applyTranslations (lines 158-195) with the dataset tr in memory
applyTranslations(tr) ==
    /\ rendered' = tr
    /\ document' = renderDocument(document, treeOf(tr)).document

\* applyTranslations throws with the dataset tr in memory: a pair of an
\* attribute map makes it throw, and no write of lines 160-170 changes a map
applyThrows(tr) == attributePass(document.elements, treeOf(tr)).threw

\* applyTranslations threw in init (line 37) or setLanguage (line 236): the
\* rest of the caller is skipped
continuationAborts(tr) ==
    /\ applyTranslations(tr)
    /\ UNCHANGED <<docLang, docDir, bodyClass, selectorActive, listeners,
                   isInitialized, events>>

\* document.dispatchEvent(new CustomEvent(type, {detail: {language}}))
dispatchEvent(type, language) ==
    events' = Append(events, [type |-> type, language |-> language])

(***************************************************************************)
(* Dataset loading (lines 115-132) and the code after the await.           *)
(***************************************************************************)
\* loadTranslations(lang) up to its first await: fetch is under way
startLoad(op, lang) ==
    [op |-> op, lang |-> lang, url |-> lang, pc |-> "response",
     fetched |-> <<lang>>, loaded |-> NULL, status |-> "pending"]

\* the catch block without the fallback of lines 128-130
catchLoadError_noFallback(lang) == "return"

\* the catch block without the test of line 128
catchLoadError_alwaysRetry(lang) == "fallback"

\* the catch block (lines 125-131) for the code whose load failed
catchLoadError(lang) ==
    IF lang # defaultLanguage THEN "fallback" ELSE "return"

\* init after the await (lines 36-55); tr is the dataset in memory
initContinuation(i, tr) ==
    /\ applyTranslations(tr)
    /\ updateDocumentAttributes({"i18n-ready"})
    /\ listeners' = listeners + 1
    /\ updateLanguageSelectorUI
    /\ isInitialized' = TRUE
    /\ dispatchEvent("i18n:ready", currentLanguage)

\* setLanguage after the await, dispatching the active code instead of lang
setLanguageContinuation_activeCode(i, tr) ==
    /\ applyTranslations(tr)
    /\ updateDocumentAttributes({})
    /\ updateLanguageSelectorUI
    /\ dispatchEvent("i18n:languageChanged", currentLanguage)
    /\ UNCHANGED <<listeners, isInitialized>>

\* setLanguage after the await (lines 235-247)
setLanguageContinuation(i, tr) ==
    /\ applyTranslations(tr)
    /\ updateDocumentAttributes({})
    /\ updateLanguageSelectorUI
    /\ dispatchEvent("i18n:languageChanged", tasks[i].lang)
    /\ UNCHANGED <<listeners, isInitialized>>

\* loadTranslations keeping the dataset in memory when the code it loaded is
\* no longer the active one
loadReturns_dropStale(i, tr, loaded) ==
    /\ translations' = IF tasks[i].lang = currentLanguage THEN tr
                       ELSE translations
    /\ tasks' = [tasks EXCEPT ![i].pc = "done", ![i].loaded = loaded,
                                 ![i].status =
                                     IF applyThrows(translations')
                                     THEN "rejected" ELSE "resolved"]
    /\ IF applyThrows(translations')
       THEN continuationAborts(translations')
       ELSE IF tasks[i].op = "init"
       THEN initContinuation(i, translations')
       ELSE setLanguageContinuation(i, translations')

\* loadTranslations returns and its caller runs on
loadReturns(i, tr, loaded) ==
    /\ translations' = tr
    /\ tasks' = [tasks EXCEPT ![i].pc = "done", ![i].loaded = loaded,
                                 ![i].status =
                                     IF applyThrows(tr)
                                     THEN "rejected" ELSE "resolved"]
    /\ IF applyThrows(tr)
       THEN continuationAborts(tr)
       ELSE IF tasks[i].op = "init"
       THEN initContinuation(i, tr)
       ELSE setLanguageContinuation(i, tr)

\* loadTranslations throws to its caller, whose promise is rejected
loadThrows(i) ==
    /\ tasks' = [tasks EXCEPT ![i].pc = "done", ![i].status = "rejected"]
    /\ UNCHANGED <<translations, isInitialized, dom, events>>

\* a fetch or a parse failed: the catch block (lines 125-131)
loadFails(i) ==
    LET what == catchLoadError(tasks[i].url) IN
    IF what = "fallback"
    THEN /\ tasks' = [tasks EXCEPT ![i].url = defaultLanguage,
                                   ![i].pc = "response",
                                   ![i].fetched = Append(@, defaultLanguage)]
         /\ UNCHANGED <<translations, isInitialized, dom, events>>
    ELSE IF what = "return"
    THEN loadReturns(i, translations, NULL)
    ELSE loadThrows(i)

FetchOutcomes == {"ok", "http_error", "network_error"}
JsonOutcomes == {"ok", "parse_error"}

\* await fetch(...) settles (lines 120-123)
FetchSettles(i, outcome) ==
    /\ i \in 1..Len(tasks)
    /\ tasks[i].pc = "response"
    /\ IF outcome = "ok"
       THEN /\ tasks' = [tasks EXCEPT ![i].pc = "json"]
            /\ UNCHANGED <<translations, isInitialized, dom, events>>
       ELSE loadFails(i)
    /\ UNCHANGED <<currentLanguage, localStorage, env, calls, lastCall, returned>>

\* await response.json() settles (line 124)
JsonSettles(i, outcome) ==
    /\ i \in 1..Len(tasks)
    /\ tasks[i].pc = "json"
    /\ IF outcome = "ok"
       THEN loadReturns(i, tasks[i].url, tasks[i].url)
       ELSE loadFails(i)
    /\ UNCHANGED <<currentLanguage, localStorage, env, calls, lastCall, returned>>

(***************************************************************************)
(* Invocations.                                                            *)
(***************************************************************************)
\* I18n.init() up to its await (lines 24-34)
init ==
    IF isInitialized
    THEN UNCHANGED <<currentLanguage, tasks>>
    ELSE /\ currentLanguage' =
                resolveLanguage(urlLang, storageMode, localStorage, navigator)
         /\ tasks' = Append(tasks, startLoad("init", currentLanguage'))

\* localStorage.setItem in its try block (lines 226-230)
setItem(mode, stored, lang) == IF mode = "ok" THEN lang ELSE stored

\* setLanguage without the check of lines 216-219
setLanguage_unchecked(lang) ==
    IF lang = currentLanguage
    THEN UNCHANGED <<currentLanguage, localStorage, tasks>>
    ELSE /\ currentLanguage' = lang
         /\ localStorage' = setItem(storageMode, localStorage, lang)
         /\ tasks' = Append(tasks, startLoad("setLanguage", lang))

\* setLanguage storing the preference before the checks of lines 216-221
setLanguage_storeFirst(lang) ==
    /\ localStorage' = setItem(storageMode, localStorage, lang)
    /\ IF ~includes(supportedLanguages, lang) \/ lang = currentLanguage
       THEN UNCHANGED <<currentLanguage, tasks>>
       ELSE /\ currentLanguage' = lang
            /\ tasks' = Append(tasks, startLoad("setLanguage", lang))

\* setLanguage without the return of line 221
setLanguage_reload(lang) ==
    IF ~includes(supportedLanguages, lang)
    THEN UNCHANGED <<currentLanguage, localStorage, tasks>>
    ELSE /\ currentLanguage' = lang
         /\ localStorage' = setItem(storageMode, localStorage, lang)
         /\ tasks' = Append(tasks, startLoad("setLanguage", lang))

\* setLanguage without the try of lines 226-230: a failed write ends the
\* call after line 223
setLanguage_noTry(lang) ==
    IF ~includes(supportedLanguages, lang) \/ lang = currentLanguage
    THEN UNCHANGED <<currentLanguage, localStorage, tasks>>
    ELSE /\ currentLanguage' = lang
         /\ localStorage' = setItem(storageMode, localStorage, lang)
         /\ tasks' = IF storageMode = "ok"
                     THEN Append(tasks, startLoad("setLanguage", lang))
                     ELSE tasks

\* setLanguage(lang) up to its await (lines 215-233)
setLanguage(lang) ==
    IF ~includes(supportedLanguages, lang) \/ lang = currentLanguage
    THEN UNCHANGED <<currentLanguage, localStorage, tasks>>
    ELSE /\ currentLanguage' = lang
         /\ localStorage' = setItem(storageMode, localStorage, lang)
         /\ tasks' = Append(tasks, startLoad("setLanguage", lang))

\* the document-ready trigger or a script calls I18n.init() (lines 307-312)
InitCall ==
    /\ calls < MaxCalls
    /\ calls' = calls + 1
    /\ lastCall' = [op |-> "init", arg |-> NULL]
    /\ init
    /\ UNCHANGED <<translations, isInitialized, localStorage, env, dom, events,
                   returned>>

\* a script calls I18n.setLanguage(lang)
SetLanguageCall(lang) ==
    /\ calls < MaxCalls
    /\ calls' = calls + 1
    /\ lastCall' = [op |-> "setLanguage", arg |-> lang]
    /\ setLanguage(lang)
    /\ UNCHANGED <<translations, isInitialized, env, dom, events, returned>>

\* a click on the button btn (lines 259-263): every registered listener
\* calls setLanguage(btn), and all but the first return at line 221
Click(btn) ==
    /\ calls < MaxCalls
    /\ listeners > 0
    /\ calls' = calls + 1
    /\ lastCall' = [op |-> "setLanguage", arg |-> btn]
    /\ setLanguage(btn)
    /\ UNCHANGED <<translations, isInitialized, env, dom, events, returned>>

(***************************************************************************)
(* Specifications.                                                         *)
(***************************************************************************)
\* the dataset in memory (line 18): {} or the content of a locale file
dataset == treeOf(translations)

\* the value of a variable not yet assigned
Undefined == [kind |-> "undefined"]

\* a script calls I18n.t(keyPath)
T(keyPath) ==
    /\ calls < MaxCalls
    /\ calls' = calls + 1
    /\ lastCall' = [op |-> "t", arg |-> str(keyPath)]
    /\ returned' = t(dataset, keyPath)
    /\ UNCHANGED <<currentLanguage, translations, isInitialized, localStorage,
                   env, dom, events, tasks>>

\* the locale files of the site
SiteLocales == ("en" :> TreeMeta) @@ ("ar" :> TreeABC)

\* the state after the module is evaluated (lines 17-19), the document as
\* served and no call made yet
InitState ==
    /\ currentLanguage = defaultLanguage
    /\ translations = EMPTY
    /\ isInitialized = FALSE
    /\ docLang = NULL
    /\ docDir = NULL
    /\ bodyClass = {}
    /\ rendered = NULL
    /\ selectorActive = {}
    /\ listeners = 0
    /\ events = <<>>
    /\ tasks = <<>>
    /\ calls = 0
    /\ lastCall = [op |-> NULL, arg |-> NULL]
    /\ returned = Undefined

\* the whole module in a few environments: no query parameter, a stored
\* preference (supported or not) or none, and a browser whose language is or
\* is not supported
Init ==
    /\ InitState
    /\ urlLang = NULL
    /\ localStorage \in {NULL, "en", "fr"}
    /\ storageMode \in StorageModes
    /\ navigator \in {n \in NavigatorValues :
                        /\ n.language \in {<<"a", "r", "-", "S", "A">>,
                                           <<"f", "r", "-", "F", "R">>}
                        /\ ~n.hasLanguages}
    /\ locales = SiteLocales
    /\ document = PageDocument

Next ==
    \/ InitCall
    \/ \E lang \in LangArgs : SetLanguageCall(lang)
    \/ \E btn \in Buttons : Click(btn)
    \/ \E i \in 1..MaxCalls, outcome \in FetchOutcomes : FetchSettles(i, outcome)
    \/ \E i \in 1..MaxCalls, outcome \in JsonOutcomes : JsonSettles(i, outcome)

Spec == Init /\ [][Next]_vars

\* resolution in every environment
InitResolve ==
    /\ InitState
    /\ urlLang \in ParamValues
    /\ localStorage \in ParamValues
    /\ storageMode \in StorageModes
    /\ navigator \in NavigatorValues
    /\ locales = SiteLocales
    /\ document = PageDocument

NextResolve == InitCall

SpecResolve == InitResolve /\ [][NextResolve]_vars

\* key lookup on every dataset of the model: the page loads the file of
\* 'en' and scripts call t
InitLookup ==
    /\ InitState
    /\ urlLang = NULL
    /\ localStorage = NULL
    /\ storageMode = "ok"
    /\ navigator = [language |-> <<"E", "N", "-", "u", "s">>,
                    hasLanguages |-> FALSE, languages |-> <<>>]
    /\ locales \in [{"en", "ar"} -> Trees]
    /\ document = PageDocument

NextLookup ==
    \/ InitCall
    \/ \E i \in 1..MaxCalls, outcome \in FetchOutcomes : FetchSettles(i, outcome)
    \/ \E i \in 1..MaxCalls, outcome \in JsonOutcomes : JsonSettles(i, outcome)
    \/ \E keyPath \in KeyPaths \cup InheritedPaths : T(keyPath)

SpecLookup == InitLookup /\ [][NextLookup]_vars

\* rendering of every document of the model with every dataset: the page
\* calls init, and scripts call it again before the file of 'en' is loaded
InitRender ==
    /\ InitState
    /\ urlLang = NULL
    /\ localStorage = NULL
    /\ storageMode = "ok"
    /\ navigator = [language |-> <<"E", "N", "-", "u", "s">>,
                    hasLanguages |-> FALSE, languages |-> <<>>]
    /\ locales \in {("en" :> tree) @@ ("ar" :> TreeABC) : tree \in RenderTrees}
    /\ document \in Documents

NextRender ==
    \/ InitCall
    \/ \E i \in 1..MaxCalls, outcome \in FetchOutcomes : FetchSettles(i, outcome)
    \/ \E i \in 1..MaxCalls, outcome \in JsonOutcomes : JsonSettles(i, outcome)

SpecRender == InitRender /\ [][NextRender]_vars

(***************************************************************************)
(* Properties.                                                             *)
(***************************************************************************)
\* the supported codes, as a set
Supported == {"en", "ar"}

\* the tags detection consults, in the order it consults them
Candidates == <<navigator.language>> \o navigator.languages

\* the language subtag of a tag, lower-cased, when it is a supported code
\* (written out for the tags of the model)
SubtagIn(tag, code) ==
    /\ tag # <<>>
    /\ Len(tag) >= 2
    /\ lowerChar(tag[1]) = (IF code = "en" THEN "e" ELSE "a")
    /\ lowerChar(tag[2]) = (IF code = "en" THEN "n" ELSE "r")
    /\ (Len(tag) = 2 \/ tag[3] = "-")

\* the positions of Candidates whose subtag is a supported code
SupportedAt == {k \in 1..Len(Candidates) :
                  \E c \in Supported : SubtagIn(Candidates[k], c)}

\* the supported code of the first such position
Detected ==
    LET k == CHOOSE j \in SupportedAt : \A m \in SupportedAt : j <= m
    IN CHOOSE c \in Supported : SubtagIn(Candidates[k], c)

\* the stored code can be read
Readable == storageMode # "blocked"

\* C1: once init has resolved the language, it is the query-parameter code
\* if that is supported, else the stored code if that is supported, else the
\* detected browser language if one is supported, else the default 'en'.
C1_ResolutionPriority ==
    lastCall.op = "init" =>
        currentLanguage =
            IF urlLang \in Supported THEN urlLang
            ELSE IF Readable /\ localStorage \in Supported THEN localStorage
            ELSE IF SupportedAt # {} THEN Detected
            ELSE "en"

\* init ran with supported codes in all three sources, all different from
\* the one the query carries, and the query won
C1_Witness ==
    /\ lastCall.op = "init"
    /\ urlLang = "ar"
    /\ Readable /\ localStorage = "en"
    /\ navigator.language = <<"E", "N", "-", "u", "s">>
    /\ currentLanguage = "ar"
    /\ Len(tasks) = 1

\* the sources with every unsupported value replaced by an absent one
Blanked(v) == IF v \in Supported THEN v ELSE NULL
SupportedTag(tag) == \E c \in Supported : SubtagIn(tag, c)
BlankedNavigator ==
    [language |-> IF SupportedTag(navigator.language)
                  THEN navigator.language ELSE <<>>,
     hasLanguages |-> navigator.hasLanguages,
     languages |-> SelectSeq(navigator.languages, SupportedTag)]

\* C10: resolution never selects an unsupported code, and resolves as it
\* would if every source holding an unsupported value held nothing.
C10_UnsupportedSkipped ==
    lastCall.op = "init" =>
        /\ currentLanguage \in Supported
        /\ currentLanguage =
              resolveLanguage(Blanked(urlLang), storageMode,
                              Blanked(localStorage), BlankedNavigator)
        /\ (urlLang \notin Supported =>
              currentLanguage =
                  resolveLanguage(NULL, storageMode, localStorage, navigator))
        /\ (localStorage \notin Supported =>
              currentLanguage =
                  resolveLanguage(urlLang, storageMode, NULL, navigator))

\* init ran with an unsupported code in the query, in the store and in the
\* primary locale, and took the first supported entry of the locale list
C10_Witness ==
    /\ lastCall.op = "init"
    /\ urlLang = "fr"
    /\ Readable /\ localStorage = "EN"
    /\ navigator.language = <<"f", "r", "-", "F", "R">>
    /\ navigator.languages = << <<"a", "r", "_", "S", "A">>,
                                <<"a", "r", "-", "S", "A">> >>
    /\ currentLanguage = "ar"

\* the tasks whose call has run to its end
Done == {i \in 1..Len(tasks) : tasks[i].pc = "done"}

\* the step is an invocation of setLanguage with argument lang (by a script
\* or by a click)
SetLanguageInvoked(lang) ==
    /\ calls' = calls + 1
    /\ lastCall'.op = "setLanguage"
    /\ lastCall'.arg = lang

\* C2: the active language code is always a supported code.
C2_ActiveLanguageSupported == currentLanguage \in Supported

\* setLanguage was last called with an unsupported code, after a switch to
\* 'ar' and an init that resolved 'en'
C2_Witness ==
    /\ lastCall = [op |-> "setLanguage", arg |-> "fr"]
    /\ Len(tasks) = 2
    /\ tasks[1].op = "init" /\ tasks[1].lang = "en"
    /\ tasks[2].op = "setLanguage" /\ tasks[2].lang = "ar"
    /\ currentLanguage = "ar"

\* C3: the dataset in memory is the dataset of the active language code,
\* stated for the last of the states the claim names: every call has
\* completed, and none had a fetch fail, so that no fallback is involved.
C3_DatasetOfActiveLanguage ==
    (/\ tasks # <<>>
     /\ \A i \in 1..Len(tasks) :
           tasks[i].pc = "done" /\ tasks[i].loaded = tasks[i].lang)
    => translations = currentLanguage

\* C4: however often init is invoked, the language is resolved and fetched
\* by one invocation only, the selector is set up once and one ready
\* notification is emitted.
C4_InitRunsOnce ==
    /\ Cardinality({i \in 1..Len(tasks) : tasks[i].op = "init"}) <= 1
    /\ listeners <= 1
    /\ Cardinality({k \in 1..Len(events) : events[k].type = "i18n:ready"}) <= 1

\* C5: setLanguage with an unsupported code changes neither the active
\* language, the dataset nor the stored preference, starts no fetch and
\* emits no notification.
C5_UnsupportedIsNoOp ==
    [][\A lang \in LangArgs \ Supported :
          SetLanguageInvoked(lang) =>
              UNCHANGED <<currentLanguage, translations, localStorage,
                          tasks, events, dom>>]_vars

\* setLanguage('fr') was the last call, with the page initialized in 'ar'
\* and a stored preference
C5_Witness ==
    /\ lastCall = [op |-> "setLanguage", arg |-> "fr"]
    /\ isInitialized
    /\ currentLanguage = "ar"
    /\ localStorage = "en"

\* C6: setLanguage with the active code starts no fetch, emits no
\* notification and changes neither the active language, the dataset nor the
\* stored preference.
C6_SameLanguageIsNoOp ==
    [][SetLanguageInvoked(currentLanguage) =>
          UNCHANGED <<currentLanguage, translations, localStorage,
                      tasks, events, dom>>]_vars

\* after init resolved and loaded 'ar', the one other call was
\* setLanguage('ar'): it started no load and stored nothing
C6_Witness ==
    /\ calls = 2
    /\ lastCall = [op |-> "setLanguage", arg |-> "ar"]
    /\ Len(tasks) = 1
    /\ tasks[1].op = "init" /\ tasks[1].pc = "done"
    /\ currentLanguage = "ar"
    /\ storageMode = "ok" /\ localStorage = NULL
    /\ Len(events) = 1

\* the step completes the call of task i
Completes(i) ==
    /\ i \in 1..Len(tasks)
    /\ tasks[i].pc # "done"
    /\ tasks'[i].pc = "done"

\* C7 as stated: a call for a non-default code whose fetch failed completes
\* normally, with the default dataset loaded and rendered.
C7_FailureLoadsDefault ==
    [][\A i \in 1..Len(tasks) :
          (/\ Completes(i)
           /\ tasks[i].lang # defaultLanguage
           /\ tasks'[i].loaded # tasks[i].lang)
          => /\ tasks'[i].status = "resolved"
             /\ tasks'[i].loaded = defaultLanguage
             /\ translations' = defaultLanguage
             /\ rendered' = defaultLanguage]_vars

\* C7 as amended: a call for a non-default code whose fetch failed fetches
\* the default dataset once and completes normally; the default dataset is
\* loaded and rendered when that second fetch succeeds, and the dataset in
\* memory is kept, and rendered, when it fails.
C7_FailureFallsBackToDefault ==
    [][\A i \in 1..Len(tasks) :
          (/\ Completes(i)
           /\ tasks[i].lang # defaultLanguage
           /\ tasks'[i].loaded # tasks[i].lang)
          => /\ tasks'[i].status = "resolved"
             /\ tasks'[i].fetched = <<tasks[i].lang, defaultLanguage>>
             /\ tasks'[i].loaded \in {defaultLanguage, NULL}
             /\ (tasks'[i].loaded = defaultLanguage =>
                    translations' = defaultLanguage)
             /\ (tasks'[i].loaded = NULL => translations' = translations)
             /\ rendered' = translations']_vars

\* a switch to 'ar' whose fetch failed has completed, having loaded and
\* rendered the dataset of 'en' and emitted its notification
C7_Witness ==
    \E i \in Done :
        /\ tasks[i].op = "setLanguage"
        /\ tasks[i].lang = "ar"
        /\ tasks[i].fetched = <<"ar", "en">>
        /\ tasks[i].loaded = "en"
        /\ tasks[i].status = "resolved"
        /\ translations = "en" /\ rendered = "en"
        /\ currentLanguage = "ar"
        /\ events # <<>>
        /\ events[Len(events)] =
              [type |-> "i18n:languageChanged", language |-> "ar"]

\* the number of settlements (of fetch or of response.json) a load can
\* still wait for
Remaining(load) ==
    IF load.pc = "done" THEN 0
    ELSE (IF load.pc = "response" THEN 2 ELSE 1)
         + (IF load.url # defaultLanguage THEN 2 ELSE 0)

\* C8: a load makes at most two fetches, the requested code and then the
\* default code, and only one when the requested code is the default; every
\* settlement brings it closer to its end, which it reaches after four at
\* most; a load none of whose fetches succeeds returns normally and leaves
\* the dataset in memory as it was.
C8_AtMostTwoFetches ==
    [][\A i \in 1..Len(tasks') :
          LET load == tasks'[i] IN
          /\ Len(load.fetched) \in {1, 2}
          /\ load.fetched[1] = load.lang
          /\ (Len(load.fetched) = 2 =>
                 load.lang # defaultLanguage /\ load.fetched[2] = defaultLanguage)
          /\ (i \in 1..Len(tasks) /\ load # tasks[i] =>
                 Remaining(load) < Remaining(tasks[i]))
          /\ (Completes(i) /\ load.loaded = NULL =>
                 /\ translations' = translations
                 /\ load.status = "resolved"
                 /\ load.fetched = IF load.lang = defaultLanguage
                                   THEN <<load.lang>>
                                   ELSE <<load.lang, defaultLanguage>>)]_vars

\* with the dataset of 'ar' in memory, a load of 'en' whose one fetch failed
\* and a load of 'ar' whose two fetches failed have returned
C8_Witness ==
    /\ translations = "ar"
    /\ \E i \in Done : /\ tasks[i].fetched = <<"en">>
                       /\ tasks[i].loaded = NULL
                       /\ tasks[i].status = "resolved"
    /\ \E i \in Done : /\ tasks[i].fetched = <<"ar", "en">>
                       /\ tasks[i].loaded = NULL
                       /\ tasks[i].status = "resolved"

\* C9: when a switch to L completes with the dataset of L loaded, the
\* document root's lang attribute is L and its dir attribute is 'rtl' if L
\* is a right-to-left code and 'ltr' otherwise.
C9_AttributesOfSwitch ==
    [][\A i \in 1..Len(tasks) :
          (/\ Completes(i)
           /\ tasks[i].op = "setLanguage"
           /\ tasks'[i].loaded = tasks[i].lang)
          => /\ docLang' = tasks[i].lang
             /\ docDir' = IF tasks[i].lang \in {"ar"} THEN "rtl" ELSE "ltr"]_vars

\* the step adds the notification [type, language] and no other
Emits(type, language) ==
    events' = Append(events, [type |-> type, language |-> language])

\* C12: a setLanguage call that changes the active language emits nothing
\* while its load is in flight and one language-changed notification, with
\* the code it was called with, when its load has returned and the document
\* is rendered; no other step emits a language-changed notification.
C12_OneNotificationPerSwitch ==
    [][/\ \A lang \in Supported :
             SetLanguageInvoked(lang) /\ lang # currentLanguage =>
                 /\ events' = events
                 /\ Len(tasks') = Len(tasks) + 1
                 /\ tasks'[Len(tasks')].op = "setLanguage"
                 /\ tasks'[Len(tasks')].lang = lang
                 /\ tasks'[Len(tasks')].pc # "done"
       /\ \A i \in 1..Len(tasks) :
             Completes(i) /\ tasks[i].op = "setLanguage" =>
                 /\ Emits("i18n:languageChanged", tasks[i].lang)
                 /\ rendered' = translations'
       /\ (events' # events =>
              \E i \in 1..Len(tasks) :
                  /\ Completes(i)
                  /\ \A j \in 1..Len(tasks) : Completes(j) => j = i
                  /\ Len(events') = Len(events) + 1
                  /\ (tasks[i].op = "init" =>
                         events'[Len(events')].type = "i18n:ready"))]_vars

\* a switch to 'ar' and then one to 'en' were made during the load of 'ar';
\* both have completed, each with its own notification
C12_Witness ==
    /\ Len(tasks) = 2
    /\ tasks[1].op = "setLanguage" /\ tasks[1].lang = "ar"
    /\ tasks[2].op = "setLanguage" /\ tasks[2].lang = "en"
    /\ Done = {1, 2}
    /\ events = << [type |-> "i18n:languageChanged", language |-> "ar"],
                   [type |-> "i18n:languageChanged", language |-> "en"] >>

\* C13: when a switch completes, the one button marked active is the button
\* of the code of that switch.
C13_ActiveButtonOfSwitch ==
    [][\A i \in 1..Len(tasks) :
          Completes(i) /\ tasks[i].op = "setLanguage" =>
              selectorActive' = {tasks[i].lang}]_vars

\* C14: with a store that throws, init resolves the detected browser
\* language or else the default, whatever the store holds, starts the load
\* and, once the load has returned, has rendered and signalled ready.
C14_BlockedStoreIsNoResult ==
    storageMode = "blocked" =>
        \A i \in 1..Len(tasks) :
            tasks[i].op = "init" =>
                /\ tasks[i].lang =
                      IF urlLang \in Supported THEN urlLang
                      ELSE IF SupportedAt # {} THEN Detected
                      ELSE "en"
                /\ tasks[i].fetched[1] = tasks[i].lang
                /\ tasks[i].status # "rejected"
                /\ (i \in Done =>
                       /\ isInitialized
                       /\ rendered = translations
                       /\ "i18n-ready" \in bodyClass
                       /\ \E k \in 1..Len(events) :
                             events[k].type = "i18n:ready")

\* the store throws and holds 'en', the browser reports ar-SA: init has
\* resolved 'ar', loaded it and signalled ready
C14_Witness ==
    /\ storageMode = "blocked"
    /\ localStorage = "en"
    /\ Len(tasks) = 1
    /\ tasks[1].op = "init" /\ tasks[1].lang = "ar" /\ tasks[1].loaded = "ar"
    /\ isInitialized
    /\ events = <<[type |-> "i18n:ready", language |-> "ar"]>>

\* C15: a switch to a supported code L other than the active one makes L the
\* active code and starts the load of L; it stores L when the store takes
\* the write and leaves the stored item alone when the write throws. When
\* the load returns, the call renders, updates the attributes and emits the
\* language-changed notification, whatever the store did.
C15_PersistIsBestEffort ==
    [][/\ \A lang \in Supported :
             SetLanguageInvoked(lang) /\ lang # currentLanguage =>
                 /\ currentLanguage' = lang
                 /\ localStorage' = IF storageMode = "ok" THEN lang
                                    ELSE localStorage
                 /\ Len(tasks') = Len(tasks) + 1
                 /\ tasks'[Len(tasks')].lang = lang
                 /\ tasks'[Len(tasks')].pc = "response"
       /\ \A i \in 1..Len(tasks) :
             Completes(i) /\ tasks[i].op = "setLanguage" =>
                 /\ rendered' = translations'
                 /\ docLang' = currentLanguage
                 /\ Emits("i18n:languageChanged", tasks[i].lang)]_vars

\* the store refuses writes and keeps 'en'; the switch to 'ar' has been
\* made, loaded, rendered and notified
C15_Witness ==
    /\ storageMode = "readonly"
    /\ localStorage = "en"
    /\ currentLanguage = "ar"
    /\ \E i \in Done : /\ tasks[i].op = "setLanguage"
                       /\ tasks[i].lang = "ar"
                       /\ tasks[i].loaded = "ar"
    /\ translations = "ar" /\ rendered = "ar"
    /\ docLang = "ar" /\ docDir = "rtl"
    /\ events[Len(events)] = [type |-> "i18n:languageChanged", language |-> "ar"]

\* exactly one of the body classes 'rtl' and 'ltr' is set
OneDirectionClass == Cardinality(bodyClass \cap {"rtl", "ltr"}) = 1

\* the body class 'rtl' is set exactly when the active code is right-to-left
ClassOfActiveLanguage ==
    "rtl" \in bodyClass <=> currentLanguage \in {"ar"}

\* C17 as stated, from the end of init on: exactly one of 'rtl' and 'ltr' is
\* set, and it is 'rtl' exactly when the active code is right-to-left.
C17_DirectionClassAtAnyTime ==
    isInitialized => OneDirectionClass /\ ClassOfActiveLanguage

\* C17 as amended: once an init or a switch has completed, exactly one of
\* 'rtl' and 'ltr' is set at any time, and whenever no load is in flight it
\* is 'rtl' exactly when the active code is right-to-left.
C17_DirectionClassWhenSettled ==
    Done # {} =>
        /\ OneDirectionClass
        /\ (Done = 1..Len(tasks) => ClassOfActiveLanguage)

\* init ended in 'en' and a switch to 'ar' has completed: 'rtl' has replaced
\* 'ltr'
C17_Witness ==
    /\ Len(tasks) = 2 /\ Done = {1, 2}
    /\ tasks[1].op = "init" /\ tasks[1].lang = "en"
    /\ tasks[2].op = "setLanguage" /\ tasks[2].lang = "ar"
    /\ currentLanguage = "ar"
    /\ bodyClass = {"rtl", "i18n-ready"}

\* C18: a call made while a load is in flight leaves that load in flight;
\* a load that completes with a dataset puts it in memory and in the
\* document whatever was requested since, and nothing else changes the
\* dataset in memory or the document's content: the last load to complete
\* decides both.
C18_LastCompletionWins ==
    [][/\ \A i \in 1..Len(tasks) :
             /\ (calls' # calls => tasks'[i] = tasks[i])
             /\ (Completes(i) /\ tasks'[i].loaded # NULL =>
                    /\ tasks'[i].loaded = tasks[i].url
                    /\ translations' = tasks'[i].loaded
                    /\ rendered' = tasks'[i].loaded)
       /\ (translations' # translations \/ rendered' # rendered =>
              \E i \in 1..Len(tasks) : Completes(i))]_vars

\* 'ar' was requested before 'en' and completed after it: the dataset of
\* 'ar' is in memory and rendered
C18_Witness ==
    /\ Len(tasks) = 2 /\ Done = {1, 2}
    /\ tasks[1].op = "setLanguage" /\ tasks[1].lang = "ar"
    /\ tasks[2].op = "setLanguage" /\ tasks[2].lang = "en"
    /\ events = << [type |-> "i18n:languageChanged", language |-> "en"],
                   [type |-> "i18n:languageChanged", language |-> "ar"] >>
    /\ translations = "ar" /\ rendered = "ar"

\* the positions of navigator.languages whose subtag is a supported code
ListSupportedAt ==
    {k \in 1..Len(navigator.languages) : SupportedTag(navigator.languages[k])}

\* the supported code that is the subtag of tag
CodeOfTag(tag) == CHOOSE c \in Supported : SubtagIn(tag, c)

\* C19: detection yields the subtag of the primary locale if it is
\* supported, else the subtag of the first entry of the preference list
\* whose subtag is supported, else nothing; init takes its result when the
\* query and the store yield nothing.
C19_DetectionOrder ==
    lastCall.op = "init" =>
        LET expected ==
                IF SupportedTag(navigator.language)
                THEN CodeOfTag(navigator.language)
                ELSE IF ListSupportedAt # {}
                THEN CodeOfTag(navigator.languages[
                         CHOOSE k \in ListSupportedAt :
                             \A m \in ListSupportedAt : k <= m])
                ELSE NULL
        IN /\ detectBrowserLanguage(navigator) = expected
           /\ (/\ urlLang \notin Supported
               /\ ~(Readable /\ localStorage \in Supported)
               => currentLanguage = IF expected = NULL THEN "en" ELSE expected)

\* init ran with an unsupported primary locale and a list whose first
\* supported entry is EN-us, before ar-SA
C19_Witness ==
    /\ lastCall.op = "init"
    /\ urlLang = NULL /\ localStorage = NULL
    /\ navigator.language = <<"f", "r", "-", "F", "R">>
    /\ navigator.languages = << <<"E", "N", "-", "u", "s">>,
                                <<"a", "r", "-", "S", "A">> >>
    /\ currentLanguage = "en"
    /\ tasks[1].lang = "en"

\* C20: a notification carries the active language code of the moment it is
\* emitted.
C20_NotificationCarriesActiveCode ==
    [][events' # events =>
          events'[Len(events')].language = currentLanguage']_vars

\* the value of the dataset tree at the end of the segments keys, every
\* segment being a member of the object it is looked up in; Undefined when a
\* segment is missing or looked up in a value that is no object
RECURSIVE ValueAt(_, _)
ValueAt(value, keys) ==
    IF keys = <<>> THEN value
    ELSE IF value.kind = "object" /\ str(Head(keys)) \in DOMAIN value.kids
    THEN ValueAt(value.kids[str(Head(keys))], Tail(keys))
    ELSE Undefined

\* the step is a call of t with the key path path
TInvoked(path) ==
    /\ calls' = calls + 1
    /\ lastCall' = [op |-> "t", arg |-> str(path)]

\* C11: t(path) returns the value of the dataset tree at the dot-separated
\* segments of path when every segment exists, and the string path itself
\* when a segment is missing or is looked up in a value that is no keyed
\* container; it leaves the dataset as it is.
C11_LookupReturnsValueOrPath ==
    [][\A path \in KeyPaths \cup InheritedPaths :
          TInvoked(path) =>
              /\ returned' =
                    IF ValueAt(dataset, split(path, ".")) # Undefined
                    THEN ValueAt(dataset, split(path, "."))
                    ELSE String(path)
              /\ UNCHANGED <<translations, locales>>]_vars

\* the step completes a call, whose applyTranslations has run
Renders == \E i \in 1..Len(tasks) : Completes(i)

\* the document a second run of applyTranslations leaves, after the run of
\* the step and with the dataset of that run
RenderedAgain == renderDocument(document', treeOf(rendered')).document

\* C16 as stated: for every dataset and every document, running
\* applyTranslations again after a run, with the dataset unchanged, leaves
\* every element's content and attributes, the title and the description
\* as the first run left them.
C16_RenderingIdempotent ==
    [][Renders => RenderedAgain = document']_vars

\* the attribute names the maps of the document name
MappedNames(doc) ==
    UNION { LET pairs == split(doc.elements[i].attrs["data-i18n-attr"], ",")
            IN { attributeName(trim(split(pairs[k], ":")[1])) :
                     k \in 1..Len(pairs) } :
            i \in { j \in 1..Len(doc.elements) :
                       "data-i18n-attr" \in DOMAIN doc.elements[j].attrs } }

\* C16 amended: for every dataset and every document in which, when the
\* first run starts, no attribute map names a marker attribute (data-i18n,
\* data-i18n-attr), a second run of applyTranslations with the dataset
\* unchanged leaves every element's content and attributes, the title and
\* the description as the first run left them.
C16_RenderingIdempotentOnContent ==
    [][/\ Renders
       /\ MappedNames(document) \cap {"data-i18n", "data-i18n-attr"} = {}
       => RenderedAgain = document']_vars

\* two calls of init have loaded and rendered the file of 'en' one after
\* the other, on a document whose maps name no marker: the heading, the
\* mapped attribute, the title and the description are those of the dataset
C16_Witness ==
    /\ Len(tasks) = 2
    /\ \A i \in 1..2 : /\ tasks[i].pc = "done"
                        /\ tasks[i].status = "resolved"
                        /\ tasks[i].loaded = "en"
    /\ rendered = "en"
    /\ MappedNames(document) = {"title", "alt"}
    /\ document.elements[1].content = <<"Y">>
    /\ document.elements[2].attrs["title"] = <<"Y">>
    /\ document.title = <<"Z">>
    /\ document.description = <<"D">>
====
